---- MODULE Spec2Model ----
(***************************************************************************)
(* The matching core of the job-match backend: the jobs_matches table,     *)
(* the ads it pairs, the "main resume" back-reference of Info rows, and    *)
(* the CRUD operations that propose, approve and cascade-delete matches.   *)
(* Every action is one request handled start to finish (one session, one   *)
(* or more commits), as in src/app/crud.                                   *)
(***************************************************************************)
EXTENDS Integers, Sequences, FiniteSets, TLC

VARIABLES
    ads,        \* the rows of the ads table, by id
    matches,    \* the committed rows of jobs_matches
    main_ad,    \* DbInfo.main_ad of every Info row
    deleted,    \* the user, profile and info rows whose is_deleted is set
    last,       \* the last request served and its response
    nops,       \* number of requests served
    call,       \* a call of a pure function: its arguments and its value
    txns        \* the sessions of concurrently served find_matches requests

vars == <<ads, matches, main_ad, deleted, last, nops, call, txns>>

----------------------------------------------------------------------------
(* Bounds                                                                  *)

\* number of requests served in one behaviour
MaxOps == 3

\* number of distinct skills the arguments of calculate_similarity draw on
MaxSkills == 3

\* largest absolute salary of the ads whose salary band is computed
MaxSalary == 4

----------------------------------------------------------------------------
(* The fixed population: users, profiles and ads                           *)

None == "None"

Companies == {"c1", "c2", "c3"}
Professionals == {"p1", "p2"}
Admins == {"admin"}
Users == Companies \cup Professionals \cup Admins

\* DbUsers.type
UserType(u) ==
    IF u \in Companies THEN "company"
    ELSE IF u \in Professionals THEN "professional"
    ELSE "admin"

\* DbCompanies.info_id: c3 has registered but never set its info
CompanyInfo(c) ==
    CASE c = "c1" -> "ic1"
      [] c = "c2" -> "ic2"
      [] OTHER -> None

\* DbProfessionals.info_id
ProfessionalInfo(p) ==
    CASE p = "p1" -> "ip1"
      [] OTHER -> "ip2"

Infos == {"ic1", "ic2", "ip1", "ip2"}

\* DbInfo.professional[0].id
InfoProfessional(i) == CHOOSE p \in Professionals : ProfessionalInfo(p) = i

AdIds == {"j1", "j2", "r1", "r2", "r3"}
\* ids a request may carry: every ad plus one that names no row
AdIdInputs == AdIds \cup {"invalidId"}

\* the ids the requests of each endpoint carry
FindSources == {"j1", "j2", "r3", "invalidId"}
ApproveResumeIds == {"r1", "r2", "r3", "invalidId"}
ApproveAdIds == {"j1", "j2", "r3", "invalidId"}
MainResumeIds == {"r1", "r3", "j1", "invalidId"}
\* the users that send DELETE /ads/{ad_id}
Deleters == {"c1", "c2", "p1", "p2", "admin"}

\* laxity percentages of the requests; threshold = round(percent / 100, 2).
\* 0, 0.5 and 1 are exact in binary floating point.
Laxities == {0, 50}

Locations == {"Sofia", "Varna"}
ResumeStatuses == {"Active", "Hidden"}

AdRow(info, resume, loc, st, lo, hi, sk) ==
    [info_id |-> info, is_resume |-> resume, location |-> loc, status |-> st,
     min_salary |-> lo, max_salary |-> hi, skills |-> sk, is_deleted |-> FALSE]


\* the rows of the ads table: two job ads of c1, two resumes of p1 and one of
\* p2, whose location and status vary
InitAds(loc, st) ==
    [a \in AdIds |->
        CASE a = "j1" -> AdRow("ic1", FALSE, "Sofia", "Active", 1500, 2500, {"A", "B", "D"})
          [] a = "j2" -> AdRow("ic1", FALSE, "Sofia", "Active", 1000, 2000, {"A", "B", "C"})
          [] a = "r1" -> AdRow("ip1", TRUE, "Sofia", "Active", 1500, 2500, {"A", "B", "D"})
          [] a = "r2" -> AdRow("ip1", TRUE, "Sofia", "Active", 1500, 2500, {"A", "B"})
          [] OTHER -> AdRow("ip2", TRUE, loc, st, 1000, 2000, {"A", "B", "C"})]

\* a row of jobs_matches with the column defaults of DbJobsMatches
DbJobsMatches(ad_id, resume_id, professional_id, company_id) ==
    [ad_id |-> ad_id, resume_id |-> resume_id,
     professional_id |-> professional_id, company_id |-> company_id,
     company_approved |-> FALSE, professional_approved |-> FALSE,
     is_deleted |-> FALSE]

\* the primary key of jobs_matches
PrimaryKey(m) == <<m.ad_id, m.professional_id, m.company_id>>

\* no pure function is being called, no concurrent session is open
NoCall == [fn |-> "none"]
NoTxns == <<>>

\* what the last request was and how it ended
Request(op, user, ad, k, st, msg) ==
    [op |-> op, user |-> user, ad |-> ad, k |-> k, status |-> st, msg |-> msg]

----------------------------------------------------------------------------
(* Pure helpers                                                            *)

\* Python's int(n / d): truncation toward zero
IntTrunc(n, d) == IF n >= 0 THEN n \div d ELSE -((-n) \div d)

\* int(ad.min_salary - (ad.min_salary * threshold)), threshold = k / 100
SalaryRangeAdjustedMin(ad, k) == IntTrunc(ad.min_salary * 100 - ad.min_salary * k, 100)

\* the upper bound rounded up, as a plausible slip
SalaryRangeAdjustedMax_Ceil(ad, k) == 0 - ((0 - (ad.max_salary * 100 + ad.max_salary * k)) \div 100)

\* int(ad.max_salary + (ad.max_salary * threshold))
SalaryRangeAdjustedMax(ad, k) == IntTrunc(ad.max_salary * 100 + ad.max_salary * k, 100)

\* a plausible slip: the laxity used directly as the threshold
SimilarityThreshold_NoInversion(k) == k

\* threshold=(1 - threshold) of the calls of calculate_similarity, in
\* hundredths, for the laxity k percent
SimilarityThreshold(k) == 100 - k

\* a plausible slip: a strict comparison
calculate_similarity_Strict(resume_skills, ad_skills, threshold) ==
    LET intersection_size == Cardinality(resume_skills \cap ad_skills)
        union_size == Cardinality(resume_skills \cup ad_skills)
    IN  IF union_size = 0 THEN FALSE
        ELSE intersection_size * 100 > threshold * union_size

\* a plausible slip: no branch for the empty union, whose similarity is 0
calculate_similarity_NoEmptyCase(resume_skills, ad_skills, threshold) ==
    LET intersection_size == Cardinality(resume_skills \cap ad_skills)
        union_size == Cardinality(resume_skills \cup ad_skills)
    IN  IF union_size = 0 THEN 0 >= threshold
        ELSE intersection_size * 100 >= threshold * union_size

\* calculate_similarity(resume_skills, ad_skills, threshold), the threshold
\* in hundredths: 0 (falsy) for an empty union, else
\* intersection_size / union_size >= threshold
calculate_similarity(resume_skills, ad_skills, threshold) ==
    LET intersection_size == Cardinality(resume_skills \cap ad_skills)
        union_size == Cardinality(resume_skills \cup ad_skills)
    IN  IF union_size = 0 THEN FALSE
        ELSE intersection_size * 100 >= threshold * union_size

\* the salary conditions of the resumes query of CRUDCompany.find_matches:
\* DbAds.min_salary >= salary_range_adjusted_min,
\* DbAds.min_salary <= salary_range_adjusted_max
ResumesSalaryFilter(resume, ad, k) ==
    /\ resume.min_salary >= SalaryRangeAdjustedMin(ad, k)
    /\ resume.min_salary <= SalaryRangeAdjustedMax(ad, k)

\* the salary conditions of the ads query of crud_professional.find_matches:
\* DbAds.min_salary >= salary_range_adjusted_min,
\* DbAds.max_salary <= salary_range_adjusted_max
AdsSalaryFilter(ad, resume, k) ==
    /\ ad.min_salary >= SalaryRangeAdjustedMin(resume, k)
    /\ ad.max_salary <= SalaryRangeAdjustedMax(resume, k)

\* the resumes query of CRUDCompany.find_matches
Resumes(ad, k) ==
    {r \in DOMAIN ads :
        /\ ~ads[r].is_deleted
        /\ ads[r].status = "Active"
        /\ ads[r].location = ads[ad].location
        /\ ads[r].is_resume
        /\ ResumesSalaryFilter(ads[r], ads[ad], k)}

\* the orders in which a query without ORDER BY may return a set of rows
Orders(S) ==
    {s \in [1..Cardinality(S) -> S] : \A i, j \in 1..Cardinality(S) : s[i] = s[j] => i = j}

\* db.add(new_match); db.commit(): with the flag raised before the commit, as
\* a plausible slip, a rolled-back duplicate still counts as a new match
AddAndCommit_ResultFirst(acc, new_match) ==
    IF \E m \in acc.matches : PrimaryKey(m) = PrimaryKey(new_match)
    THEN [matches |-> acc.matches, result |-> TRUE]
    ELSE [matches |-> acc.matches \cup {new_match}, result |-> TRUE]

\* an insert that replaces the row holding the primary key, as a plausible
\* slip (db.merge for db.add)
AddAndCommit_Upsert(acc, new_match) ==
    [matches |-> {m \in acc.matches : PrimaryKey(m) # PrimaryKey(new_match)}
                    \cup {new_match},
     result |-> TRUE]

\* db.add(new_match); db.commit(); result = True -- the INSERT violates the
\* primary key when a row (deleted or not) has the same (ad_id,
\* professional_id, company_id): IntegrityError, db.rollback(), continue
AddAndCommit(acc, new_match) ==
    IF \E m \in acc.matches : PrimaryKey(m) = PrimaryKey(new_match)
    THEN acc
    ELSE [matches |-> acc.matches \cup {new_match}, result |-> TRUE]

\* the body of "for resume in resumes" of CRUDCompany.find_matches, run over
\* the resumes from position i on
RECURSIVE ForResumes(_, _, _, _, _, _)
ForResumes(resumes, i, acc, company, ad_id, k) ==
    IF i > Len(resumes) THEN acc
    ELSE LET resume == resumes[i]
             similarity == calculate_similarity(ads[resume].skills, ads[ad_id].skills,
                                                SimilarityThreshold(k))
             professional_id == InfoProfessional(ads[resume].info_id)
             new_match == DbJobsMatches(ad_id, resume, professional_id, company)
         IN  ForResumes(resumes, i + 1,
                        IF similarity THEN AddAndCommit(acc, new_match) ELSE acc,
                        company, ad_id, k)

----------------------------------------------------------------------------
Init ==
    /\ \E loc \in Locations, st \in ResumeStatuses :
          /\ (loc = "Sofia" \/ st = "Active")
          /\ ads = InitAds(loc, st)
    /\ matches = {}
    /\ main_ad = [i \in Infos |-> None]
    /\ deleted = {}
    /\ last = Request("none", None, None, 0, 0, "")
    /\ nops = 0
    /\ call = NoCall
    /\ txns = NoTxns


----------------------------------------------------------------------------
(* POST /companies/match -> CRUDCompany.find_matches                       *)

\* the same lookup without the soft-delete filter, as a plausible slip
GetAd_IgnoreDeleted(ad_id) == IF ad_id \in DOMAIN ads THEN ad_id ELSE None

\* db.query(DbAds).filter(DbAds.id == ad_id, DbAds.is_deleted == False).first()
GetAd(ad_id) == IF ad_id \in DOMAIN ads /\ ~ads[ad_id].is_deleted THEN ad_id ELSE None

FindMatches(company, ad_id, k) ==
    /\ nops < MaxOps
    /\ nops' = nops + 1
    /\ UNCHANGED <<deleted, call, txns>>
    /\ UNCHANGED <<ads, main_ad>>
    /\ IF CompanyInfo(company) = None
       THEN /\ matches' = matches
            /\ last' = Request("find_matches", company, ad_id, k, 404, "Please set your info first.")
       ELSE IF GetAd(ad_id) = None
       THEN /\ matches' = matches
            /\ last' = Request("find_matches", company, ad_id, k, 404, "Ad not found.")
       ELSE \E resumes \in Orders(Resumes(ad_id, k)) :
              LET out == ForResumes(resumes, 1, [matches |-> matches, result |-> FALSE],
                                    company, ad_id, k)
              IN  /\ matches' = out.matches
                  /\ last' = Request("find_matches", company, ad_id, k, 200,
                                     IF out.result THEN "You have new matches!"
                                     ELSE "You have no matches!")

----------------------------------------------------------------------------
(* PATCH /companies/match -> CRUDCompany.approve_match                     *)

\* the same lookup without the soft-delete filter, as a plausible slip
ApproveMatchQuery_AnyRow(resume_id, company_id) ==
    {m \in matches : m.resume_id = resume_id /\ m.company_id = company_id}

\* db.query(DbJobsMatches).filter(is_deleted == False, resume_id == ..., company_id == ...)
ApproveMatchQuery(resume_id, company_id) ==
    {m \in matches : ~m.is_deleted /\ m.resume_id = resume_id /\ m.company_id = company_id}

\* an approval that raises both flags, as a plausible slip
CompanyApprove_BothFlags(m) ==
    [m EXCEPT !.company_approved = TRUE, !.professional_approved = TRUE]

\* match.company_approved = True
CompanyApprove(m) == [m EXCEPT !.company_approved = TRUE]

\* an approval that also marks the resume as matched, as a plausible slip
ApproveMatch_SetsMatched(company, resume_id) ==
    /\ nops < MaxOps
    /\ nops' = nops + 1
    /\ UNCHANGED <<deleted, call, txns>>
    /\ UNCHANGED main_ad
    /\ IF ApproveMatchQuery(resume_id, company) = {}
       THEN /\ matches' = matches
            /\ ads' = ads
            /\ last' = Request("approve_match", company, resume_id, 0, 404, "Resume not found.")
       ELSE \E match \in ApproveMatchQuery(resume_id, company) :
              /\ matches' = (matches \ {match}) \cup {CompanyApprove(match)}
              /\ ads' = [ads EXCEPT ![match.resume_id].status = "Matched"]
              /\ last' = Request("approve_match", company, resume_id, 0, 200, "Match approved!")

ApproveMatch(company, resume_id) ==
    /\ nops < MaxOps
    /\ nops' = nops + 1
    /\ UNCHANGED <<deleted, call, txns>>
    /\ UNCHANGED <<ads, main_ad>>
    /\ IF ApproveMatchQuery(resume_id, company) = {}
       THEN /\ matches' = matches
            /\ last' = Request("approve_match", company, resume_id, 0, 404, "Resume not found.")
       ELSE \* .first(): any one of the rows the filter selects
            \E match \in ApproveMatchQuery(resume_id, company) :
              /\ matches' = (matches \ {match}) \cup {CompanyApprove(match)}
              /\ last' = Request("approve_match", company, resume_id, 0, 200, "Match approved!")

----------------------------------------------------------------------------
(* PATCH /professionals/matches-approve -> approve_match_by_ad_id          *)

\* db.query(DbJobsMatches).filter(ad_id == ad_id, is_deleted == False)
ApproveByAdIdQuery(ad_id) ==
    {m \in matches : m.ad_id = ad_id /\ ~m.is_deleted}

\* ad_in_job_matches.approved = True: DbJobsMatches maps no column named
\* "approved", so the assignment sets a plain attribute of the Python object
\* and db.commit() writes no column of the row
ProfessionalApprove(m) == m

ApproveMatchByAdId(user, ad_id) ==
    /\ nops < MaxOps
    /\ nops' = nops + 1
    /\ UNCHANGED <<deleted, call, txns>>
    /\ UNCHANGED <<ads, main_ad>>
    /\ IF ApproveByAdIdQuery(ad_id) = {}
       THEN /\ matches' = matches
            /\ last' = Request("approve_match_by_ad_id", user, ad_id, 0, 404, "There is no ad with ID")
       ELSE \E ad_in_job_matches \in ApproveByAdIdQuery(ad_id) :
              /\ matches' = (matches \ {ad_in_job_matches})
                                \cup {ProfessionalApprove(ad_in_job_matches)}
              /\ last' = Request("approve_match_by_ad_id", user, ad_id, 0, 200, "Match approved!")

----------------------------------------------------------------------------
(* PATCH /professionals/resume/{id} -> setup_main_resume                                  *)

SetupMainResume(user, resume_id) ==
    /\ nops < MaxOps
    /\ nops' = nops + 1
    /\ UNCHANGED <<deleted, call, txns>>
    /\ UNCHANGED <<ads, matches>>
    /\ IF GetAd(resume_id) = None
       THEN /\ main_ad' = main_ad
            /\ last' = Request("setup_main_resume", user, resume_id, 0, 200, "Resume not found")
       ELSE /\ main_ad' = [main_ad EXCEPT ![ProfessionalInfo(user)] = resume_id]
            /\ last' = Request("setup_main_resume", user, resume_id, 0, 200,
                               "Main resume changed successfully")

----------------------------------------------------------------------------
(* DELETE /ads/{ad_id} -> delete_ad_crud                                   *)

\* get_professional / get_company of crud_ad: the profile row of the user
AuthorInfo(user) ==
    IF user \in Professionals THEN ProfessionalInfo(user)
    ELSE IF user \in Companies THEN CompanyInfo(user)
    ELSE None

\* an authorization check that lets everyone through, as a plausible slip
Forbidden_Never(user, ad_id) == FALSE

\* check_user_authorization: TRUE when the 403 is raised
Forbidden(user, ad_id) ==
    UserType(user) # "admin" /\ AuthorInfo(user) # ads[ad_id].info_id

\* a cascade that looks at the job-ad side only, as a plausible slip
JobMatchesOf_AdSideOnly(ad_id) ==
    {m \in matches : m.ad_id = ad_id}

\* the rows delete_job_matches selects
JobMatchesOf(ad_id) ==
    IF ads[ad_id].is_resume
    THEN {m \in matches : m.resume_id = ad_id}
    ELSE {m \in matches : m.ad_id = ad_id}

\* delete_job_matches: j_m.is_deleted = True for every selected row
DeleteJobMatches(ad_id) ==
    {IF m \in JobMatchesOf(ad_id) THEN [m EXCEPT !.is_deleted = TRUE] ELSE m : m \in matches}

\* if_main_resume: db.query(DbInfo).filter(main_ad == ad.id).first()
MainResumeQuery(ad_id) == {i \in Infos : main_ad[i] = ad_id}

DeleteAd(user, ad_id) ==
    /\ nops < MaxOps
    /\ nops' = nops + 1
    /\ UNCHANGED <<deleted, call, txns>>
    /\ IF GetAd(ad_id) = None
       THEN /\ UNCHANGED <<ads, matches, main_ad>>
            /\ last' = Request("delete_ad", user, ad_id, 0, 404, "Ad not found")
       ELSE IF Forbidden(user, ad_id)
       THEN /\ UNCHANGED <<ads, matches, main_ad>>
            /\ last' = Request("delete_ad", user, ad_id, 0, 403, "Only the author can apply changes")
       ELSE /\ IF user \in Professionals /\ MainResumeQuery(ad_id) # {}
               THEN \E resume \in MainResumeQuery(ad_id) :
                        main_ad' = [main_ad EXCEPT ![resume] = None]
               ELSE main_ad' = main_ad
            /\ matches' = DeleteJobMatches(ad_id)
            /\ ads' = [ads EXCEPT ![ad_id].is_deleted = TRUE]
            /\ last' = Request("delete_ad", user, ad_id, 0, 204, "")

----------------------------------------------------------------------------
(* DELETE /professionals/{professional_id} -> delete_professional_by_id    *)

\* db.query(DbAds).filter(DbAds.info_id == professional.info_id).all()
ResumesOfInfo(info_id) == {a \in DOMAIN ads : ads[a].info_id = info_id}

\* for match in self.match: the rows whose professional_id is the profile
MatchesOfProfessional(professional) ==
    {m \in matches : m.professional_id = professional}

\* a cascade that flags no match, as a plausible slip
MarkAsDeleted_NoMatches(professional) == matches

\* DbProfessionals.mark_as_deleted, the jobs_matches side
MarkAsDeleted(professional) ==
    {IF m \in MatchesOfProfessional(professional) THEN [m EXCEPT !.is_deleted = TRUE] ELSE m :
        m \in matches}

\* DbProfessionals.mark_as_deleted, the user, info and profile rows
MarkedRows(professional) ==
    {<<"users", professional>>, <<"info", ProfessionalInfo(professional)>>,
     <<"professionals", professional>>}

\* the caller is any verified professional; the handler does not compare it
\* with professional_id
DeleteProfessional(user, professional_id) ==
    /\ nops < MaxOps
    /\ nops' = nops + 1
    /\ UNCHANGED <<main_ad, call, txns>>
    /\ ads' = [a \in DOMAIN ads |->
                 IF a \in ResumesOfInfo(ProfessionalInfo(professional_id))
                 THEN [ads[a] EXCEPT !.is_deleted = TRUE] ELSE ads[a]]
    /\ matches' = MarkAsDeleted(professional_id)
    /\ deleted' = deleted \cup MarkedRows(professional_id)
    /\ last' = Request("delete_professional", user, professional_id, 0, 204, "")

----------------------------------------------------------------------------
(* DELETE /companies/{company_id} -> CRUDCompany.delete_by_id              *)

\* the users that send the request and the company ids it carries
CompanyDeleters == {"c2", "admin"}
DeleteCompanyIds == {"c1", "c2"}

\* db.query(DbCompanies).filter(id == company_id, is_deleted == False).first()
GetCompany(company_id) ==
    IF company_id \in Companies /\ <<"companies", company_id>> \notin deleted
    THEN company_id ELSE None

\* not is_admin(user) and not is_owner(company, user.id): the 403 is raised
NotAdminNorOwner(company, user) == UserType(user) # "admin" /\ user # company

\* for match in self.match: the rows whose company_id is the company
MatchesOfCompany(company) == {m \in matches : m.company_id = company}

\* DbCompanies.mark_as_deleted, the jobs_matches side
CompanyMarkAsDeleted(company) ==
    {IF m \in MatchesOfCompany(company) THEN [m EXCEPT !.is_deleted = TRUE] ELSE m :
        m \in matches}

\* DbCompanies.mark_as_deleted, the user, info and profile rows
CompanyMarkedRows(company) ==
    {<<"users", company>>, <<"companies", company>>}
        \cup (IF CompanyInfo(company) # None
               THEN {<<"info", CompanyInfo(company)>>} ELSE {})

DeleteCompany(user, company_id) ==
    /\ nops < MaxOps
    /\ nops' = nops + 1
    /\ UNCHANGED <<main_ad, call, txns>>
    /\ IF GetCompany(company_id) = None
       THEN /\ UNCHANGED <<ads, matches, deleted>>
            /\ last' = Request("delete_company", user, company_id, 0, 404,
                               "Company does not exist.")
       ELSE IF NotAdminNorOwner(company_id, user)
       THEN /\ UNCHANGED <<ads, matches, deleted>>
            /\ last' = Request("delete_company", user, company_id, 0, 403,
                               "Deletion of the company is restricted")
       ELSE /\ ads' = [a \in DOMAIN ads |->
                         IF a \in ResumesOfInfo(CompanyInfo(company_id))
                         THEN [ads[a] EXCEPT !.is_deleted = TRUE] ELSE ads[a]]
            /\ matches' = CompanyMarkAsDeleted(company_id)
            /\ deleted' = deleted \cup CompanyMarkedRows(company_id)
            /\ last' = Request("delete_company", user, company_id, 0, 204, "")

----------------------------------------------------------------------------
(* GET /professionals/matches-search -> crud_professional.find_matches     *)

\* the ad_id query parameter of the request
SearchIds == {"r1", "invalidId"}

\* the endpoint calls find_matches(db, current_user, result, ad_id) and the
\* function is find_matches(db, user, threshold): the call raises TypeError
\* before the body runs, and the request ends with 500
SearchForMatch(user, ad_id, k) ==
    /\ nops < MaxOps
    /\ nops' = nops + 1
    /\ UNCHANGED <<ads, matches, main_ad, deleted, call, txns>>
    /\ last' = Request("search_for_match", user, ad_id, k, 500, "Internal Server Error")

----------------------------------------------------------------------------
\* core.auth.get_user_by_username: a user marked as deleted is not found
get_current_user(user) == <<"users", user>> \notin deleted

Next ==
    \/ \E c \in Companies, a \in FindSources, k \in Laxities :
          get_current_user(c) /\ FindMatches(c, a, k)
    \/ \E c \in Companies, r \in ApproveResumeIds :
          get_current_user(c) /\ ApproveMatch(c, r)
    \/ \E p \in Professionals, a \in ApproveAdIds :
          get_current_user(p) /\ ApproveMatchByAdId(p, a)
    \/ \E p \in Professionals, r \in MainResumeIds :
          get_current_user(p) /\ SetupMainResume(p, r)
    \/ \E u \in Deleters, a \in AdIdInputs :
          get_current_user(u) /\ DeleteAd(u, a)
    \/ \E u \in Professionals, p \in Professionals :
          get_current_user(u) /\ DeleteProfessional(u, p)
    \/ \E p \in Professionals, a \in SearchIds, k \in Laxities :
          get_current_user(p) /\ SearchForMatch(p, a, k)
    \/ \E u \in CompanyDeleters, c \in DeleteCompanyIds :
          get_current_user(u) /\ DeleteCompany(u, c)

Spec == Init /\ [][Next]_vars

----------------------------------------------------------------------------
(* The functions of crud_professional that no route reaches as written:    *)
(* delete_resume_by_id (its route is commented out) and the body of        *)
(* find_matches(db, user, threshold)                                       *)

\* the resume_id argument of delete_resume_by_id
DeleteResumeIds == {"r1", "r3", "invalidId"}

\* get_professional: the profile of the user unless it is marked as deleted
GetProfessional(user) ==
    IF <<"professionals", user>> \in deleted THEN None ELSE user

\* a deletion that keeps the rows of jobs_matches, as a plausible slip
DeleteOrphans_Keep(ad_id) == matches

\* db.delete(resume) with relationship('DbJobsMatches', back_populates='ad',
\* cascade='all, delete-orphan'): the rows whose ad_id is the ad are deleted
\* with it
DeleteOrphans(ad_id) == {m \in matches : m.ad_id # ad_id}

DeleteResumeById(user, resume_id) ==
    /\ nops < MaxOps
    /\ nops' = nops + 1
    /\ UNCHANGED <<main_ad, deleted, call, txns>>
    /\ IF GetProfessional(user) = None
       THEN /\ UNCHANGED <<ads, matches>>
            /\ last' = Request("delete_resume", user, resume_id, 0, 404,
                               "You are not logged as professional")
       ELSE IF GetAd(resume_id) # None /\ ads[resume_id].info_id = ProfessionalInfo(user)
       THEN /\ ads' = [a \in DOMAIN ads \ {resume_id} |-> ads[a]]
            /\ matches' = DeleteOrphans(resume_id)
            /\ last' = Request("delete_resume", user, resume_id, 0, 204,
                               "Main resume changed successfully")
       ELSE /\ UNCHANGED <<ads, matches>>
            /\ last' = Request("delete_resume", user, resume_id, 0, 404, "Resume not found")

\* the ads query of crud_professional.find_matches for one resume
Ads(resume, k) ==
    {a \in DOMAIN ads :
        /\ ~ads[a].is_deleted
        /\ ads[a].status = "Active"
        /\ ads[a].location = ads[resume].location
        /\ AdsSalaryFilter(ads[a], ads[resume], k)
        /\ ~ads[a].is_resume}

\* find_matches(db, user, threshold) called with the three arguments it
\* declares: it goes through every ad of the professional's info;
\* DbJobsMatches(..., approved=False) names no column of the model and
\* raises TypeError, which "except IntegrityError" does not catch, so the
\* first similar pair ends the request with 500 and no row is added
ProfessionalFindMatches(user, k) ==
    /\ nops < MaxOps
    /\ nops' = nops + 1
    /\ UNCHANGED <<ads, matches, main_ad, deleted, call, txns>>
    /\ IF GetProfessional(user) = None
       THEN last' = Request("find_matches_professional", user, None, k, 404,
                            "You are not logged as professional")
       ELSE IF \E resume \in ResumesOfInfo(ProfessionalInfo(user)) :
                 \E ad \in Ads(resume, k) :
                    calculate_similarity(ads[resume].skills, ads[ad].skills,
                                         SimilarityThreshold(k))
       THEN last' = Request("find_matches_professional", user, None, k, 500,
                            "Internal Server Error")
       ELSE last' = Request("find_matches_professional", user, None, k, 404,
                            "You have no matches")

CrudNext ==
    \/ Next
    \/ \E p \in Professionals, r \in DeleteResumeIds :
          get_current_user(p) /\ DeleteResumeById(p, r)
    \/ \E p \in Professionals, k \in Laxities :
          get_current_user(p) /\ ProfessionalFindMatches(p, k)

CrudSpec == Init /\ [][CrudNext]_vars

----------------------------------------------------------------------------
(* Two POST /companies/match requests served concurrently, each in its own *)
(* session (get_db) on the same MySQL database. db.add() only registers    *)
(* the row with the session; db.commit() flushes the INSERT and then       *)
(* commits. InnoDB checks the primary key at the INSERT: against a         *)
(* committed row it fails (IntegrityError), against a row another session  *)
(* has inserted and not yet committed it waits for that session.           *)

Sessions == {"t1", "t2"}
\* the companies and job ads of the concurrent requests
ConcurrentCompanies == {"c1", "c2"}
ConcurrentSources == {"j1", "j2"}

\* the session of one find_matches call before its first statement
NewSession(company, ad_id, k) ==
    [company |-> company, ad_id |-> ad_id, k |-> k, pc |-> "query",
     resumes |-> <<>>, i |-> 1, pending |-> None, result |-> FALSE,
     tried |-> {}, won |-> {}, status |-> 0, msg |-> ""]

ConcurrentInit ==
    /\ ads = InitAds("Sofia", "Active")
    /\ matches = {}
    /\ main_ad = [i \in Infos |-> None]
    /\ deleted = {}
    /\ last = Request("none", None, None, 0, 0, "")
    /\ nops = 0
    /\ call = NoCall
    /\ \E c1 \in ConcurrentCompanies, c2 \in ConcurrentCompanies,
          a1 \in ConcurrentSources, a2 \in ConcurrentSources,
          k1 \in Laxities, k2 \in Laxities :
          txns = [t \in Sessions |-> IF t = "t1" THEN NewSession(c1, a1, k1)
                                     ELSE NewSession(c2, a2, k2)]

\* the row the session would insert for its current candidate
NewMatch(s) ==
    DbJobsMatches(s.ad_id, s.resumes[s.i],
                  InfoProfessional(ads[s.resumes[s.i]].info_id), s.company)

\* the candidate under the loop variable passes the similarity test
Similar(s) ==
    calculate_similarity(ads[s.resumes[s.i]].skills, ads[s.ad_id].skills,
                         SimilarityThreshold(s.k))

\* a committed row holds the primary key of the row
DuplicateEntry(row) == \E m \in matches : PrimaryKey(m) = PrimaryKey(row)

\* another session holds an uncommitted INSERT with the primary key of the row
LockedBy(t, row) ==
    \E u \in Sessions \ {t} :
        txns[u].pc = "flushed" /\ PrimaryKey(txns[u].pending) = PrimaryKey(row)

\* an IntegrityError that is not caught, as a plausible slip: the request
\* ends with 500
OnIntegrityError_Raise(s) ==
    [s EXCEPT !.pc = "done", !.status = 500, !.msg = "Internal Server Error"]

\* except IntegrityError: db.rollback(); continue
OnIntegrityError(s) == [s EXCEPT !.i = s.i + 1]

\* the info check, the ad lookup and the resumes query
SessionQuery(t) ==
    LET s == txns[t]
    IN  /\ s.pc = "query"
        /\ CompanyInfo(s.company) # None
        /\ GetAd(s.ad_id) # None
        /\ \E resumes \in Orders(Resumes(s.ad_id, s.k)) :
              txns' = [txns EXCEPT ![t] = [s EXCEPT !.pc = "loop", !.resumes = resumes]]
        /\ UNCHANGED <<ads, matches, main_ad, deleted, last, nops, call>>

\* one pass of the loop for a candidate that fails the similarity test
SessionSkip(t) ==
    LET s == txns[t]
    IN  /\ s.pc = "loop" /\ s.i <= Len(s.resumes)
        /\ ~Similar(s)
        /\ txns' = [txns EXCEPT ![t] = [s EXCEPT !.i = s.i + 1]]
        /\ UNCHANGED <<ads, matches, main_ad, deleted, last, nops, call>>

\* db.add(new_match) and the INSERT that db.commit() flushes
SessionInsert(t) ==
    LET s == txns[t]
    IN  /\ s.pc = "loop" /\ s.i <= Len(s.resumes)
        /\ Similar(s)
        /\ ~LockedBy(t, NewMatch(s))
        /\ txns' = [txns EXCEPT ![t] =
                      IF DuplicateEntry(NewMatch(s))
                      THEN OnIntegrityError([s EXCEPT !.tried = @ \cup {PrimaryKey(NewMatch(s))}])
                      ELSE [s EXCEPT !.pc = "flushed", !.pending = NewMatch(s),
                                     !.tried = @ \cup {PrimaryKey(NewMatch(s))}]]
        /\ UNCHANGED <<ads, matches, main_ad, deleted, last, nops, call>>

\* the COMMIT of db.commit(), then result = True
SessionCommit(t) ==
    LET s == txns[t]
    IN  /\ s.pc = "flushed"
        /\ matches' = matches \cup {s.pending}
        /\ txns' = [txns EXCEPT ![t] =
                      [s EXCEPT !.pc = "loop", !.pending = None, !.result = TRUE,
                                !.won = @ \cup {PrimaryKey(s.pending)}, !.i = s.i + 1]]
        /\ UNCHANGED <<ads, main_ad, deleted, last, nops, call>>

\* the response after the loop
SessionReturn(t) ==
    LET s == txns[t]
    IN  /\ s.pc = "loop" /\ s.i > Len(s.resumes)
        /\ txns' = [txns EXCEPT ![t] =
                      [s EXCEPT !.pc = "done", !.status = 200,
                                !.msg = IF s.result THEN "You have new matches!"
                                        ELSE "You have no matches!"]]
        /\ UNCHANGED <<ads, matches, main_ad, deleted, last, nops, call>>

ConcurrentNext ==
    \E t \in Sessions :
        \/ SessionQuery(t)
        \/ SessionSkip(t)
        \/ SessionInsert(t)
        \/ SessionCommit(t)
        \/ SessionReturn(t)

ConcurrentSpec == ConcurrentInit /\ [][ConcurrentNext]_vars

----------------------------------------------------------------------------
(* Calls of calculate_similarity on arbitrary skill sets                   *)

\* skill ids
Skills == {<<"A", "B", "C", "D", "E">>[i] : i \in 1..MaxSkills}

\* thresholds in hundredths; 0, 0.2, 0.5 and 1 compare with the quotients
\* of small integers in binary floating point as the exact values do
Thresholds == {0, 20, 50, 100}

SimilarityInit ==
    /\ ads = InitAds("Sofia", "Active")
    /\ matches = {}
    /\ main_ad = [i \in Infos |-> None]
    /\ deleted = {}
    /\ last = Request("none", None, None, 0, 0, "")
    /\ nops = 0
    /\ txns = NoTxns
    /\ \E resume_skills \in SUBSET Skills, ad_skills \in SUBSET Skills,
          threshold \in Thresholds :
          call = [fn |-> "calculate_similarity", resume_skills |-> resume_skills,
                  ad_skills |-> ad_skills, threshold |-> threshold,
                  returned |-> FALSE, value |-> FALSE]

CallSimilarity ==
    /\ call.fn = "calculate_similarity"
    /\ ~call.returned
    /\ call' = [call EXCEPT !.returned = TRUE,
                             !.value = calculate_similarity(call.resume_skills,
                                                            call.ad_skills,
                                                            call.threshold)]
    /\ UNCHANGED <<ads, matches, main_ad, deleted, last, nops, txns>>

SimilaritySpec == SimilarityInit /\ [][CallSimilarity]_vars

----------------------------------------------------------------------------
(* The adjusted salary band of find_matches on arbitrary salaries          *)

\* AdCreate.min_salary, AdCreate.max_salary: any int
Salaries == (0 - MaxSalary)..MaxSalary

\* laxity percentages whose threshold round(k / 100, 2) and whose products
\* with small integers are exact in binary floating point
BandLaxities == {0, 25, 50, 75, 100}

BandInit ==
    /\ ads = InitAds("Sofia", "Active")
    /\ matches = {}
    /\ main_ad = [i \in Infos |-> None]
    /\ deleted = {}
    /\ last = Request("none", None, None, 0, 0, "")
    /\ nops = 0
    /\ txns = NoTxns
    /\ \E min_salary \in Salaries, max_salary \in Salaries, k \in BandLaxities :
          call = [fn |-> "salary_range",
                  ad |-> [min_salary |-> min_salary, max_salary |-> max_salary],
                  k |-> k, returned |-> FALSE,
                  salary_range_adjusted_min |-> 0, salary_range_adjusted_max |-> 0]

CallSalaryRange ==
    /\ call.fn = "salary_range"
    /\ ~call.returned
    /\ call' = [call EXCEPT
                   !.returned = TRUE,
                   !.salary_range_adjusted_min = SalaryRangeAdjustedMin(call.ad, call.k),
                   !.salary_range_adjusted_max = SalaryRangeAdjustedMax(call.ad, call.k)]
    /\ UNCHANGED <<ads, matches, main_ad, deleted, last, nops, txns>>

BandSpec == BandInit /\ [][CallSalaryRange]_vars

----------------------------------------------------------------------------
(* The salary conditions of the two candidate queries on arbitrary         *)
(* salaries of the source and of the candidate                             *)

FilterInit ==
    /\ ads = InitAds("Sofia", "Active")
    /\ matches = {}
    /\ main_ad = [i \in Infos |-> None]
    /\ deleted = {}
    /\ last = Request("none", None, None, 0, 0, "")
    /\ nops = 0
    /\ txns = NoTxns
    /\ \E source_min \in Salaries, source_max \in Salaries,
          candidate_min \in Salaries, candidate_max \in Salaries,
          k \in BandLaxities :
          call = [fn |-> "salary_filter",
                  source |-> [min_salary |-> source_min, max_salary |-> source_max],
                  candidate |-> [min_salary |-> candidate_min,
                                 max_salary |-> candidate_max],
                  k |-> k, returned |-> FALSE, resumes |-> FALSE, ads |-> FALSE]

\* the candidate as a resume for a job-ad source (resumes query) and as a
\* job ad for a resume source (ads query)
CallSalaryFilter ==
    /\ call.fn = "salary_filter"
    /\ ~call.returned
    /\ call' = [call EXCEPT
                   !.returned = TRUE,
                   !.resumes = ResumesSalaryFilter(call.candidate, call.source, call.k),
                   !.ads = AdsSalaryFilter(call.candidate, call.source, call.k)]
    /\ UNCHANGED <<ads, matches, main_ad, deleted, last, nops, txns>>

FilterSpec == FilterInit /\ [][CallSalaryFilter]_vars

----------------------------------------------------------------------------
(* The match decision of CRUDCompany.find_matches for one job ad and one   *)
(* resume at two laxities                                                  *)

\* the skills of the resume and of the job ad: Jaccard 1, 1/2, 0 and the
\* empty union
SkillPairs ==
    {<<{"A"}, {"A"}>>, <<{"A"}, {"A", "B"}>>, <<{"A"}, {"B"}>>, <<{}, {}>>}

\* the resume passes the salary conditions and the similarity test
Matched(ad, resume, k) ==
    /\ ResumesSalaryFilter(resume, ad, k)
    /\ calculate_similarity(resume.skills, ad.skills, SimilarityThreshold(k))

LaxityInit ==
    /\ ads = InitAds("Sofia", "Active")
    /\ matches = {}
    /\ main_ad = [i \in Infos |-> None]
    /\ deleted = {}
    /\ last = Request("none", None, None, 0, 0, "")
    /\ nops = 0
    /\ txns = NoTxns
    /\ \E ad_min \in Salaries, ad_max \in Salaries, resume_min \in Salaries,
          sk \in SkillPairs, k \in BandLaxities, k2 \in BandLaxities :
          /\ k <= k2
          /\ call = [fn |-> "matched",
                     ad |-> [min_salary |-> ad_min, max_salary |-> ad_max,
                             skills |-> sk[2]],
                     resume |-> [min_salary |-> resume_min, skills |-> sk[1]],
                     k |-> k, k2 |-> k2, returned |-> FALSE,
                     at_k |-> FALSE, at_k2 |-> FALSE]

CallMatched ==
    /\ call.fn = "matched"
    /\ ~call.returned
    /\ call' = [call EXCEPT
                   !.returned = TRUE,
                   !.at_k = Matched(call.ad, call.resume, call.k),
                   !.at_k2 = Matched(call.ad, call.resume, call.k2)]
    /\ UNCHANGED <<ads, matches, main_ad, deleted, last, nops, txns>>

LaxitySpec == LaxityInit /\ [][CallMatched]_vars

----------------------------------------------------------------------------
(* CRUDCompany.get_matches_multi: the match listing of a company           *)

GetMatchesMulti(company) ==
    {m \in matches : ~m.is_deleted /\ m.company_id = company /\ m.ad_id \in DOMAIN ads}

----------------------------------------------------------------------------
(* Properties                                                              *)

\* a request has just been served
Served == nops' = nops + 1

\* the resumes that pass the candidate filter and the similarity test
PassingResumes(ad_id, k) ==
    {r \in Resumes(ad_id, k) :
        calculate_similarity(ads[r].skills, ads[ad_id].skills, SimilarityThreshold(k))}

\* C1: when find_matches returns for a source job ad, every resume that
\* passed the candidate filter and the similarity test has a Match row
\* pairing the job ad with that resume.
C1_Completeness ==
    (last.op = "find_matches" /\ last.status = 200 /\ ~ads[last.ad].is_resume)
        => \A r \in PassingResumes(last.ad, last.k) :
              \E m \in matches : m.ad_id = last.ad /\ m.resume_id = r

\* C2: no two Match rows, deleted or not, share the same (ad_id, resume_id).
C2_OncePerPair ==
    \A m1, m2 \in matches :
        (m1.ad_id = m2.ad_id /\ m1.resume_id = m2.resume_id) => m1 = m2

JaccardAtLeast(A, B, k) ==
    /\ A \cup B # {}
    /\ 100 * Cardinality(A \cap B) >= (100 - k) * Cardinality(A \cup B)

\* C4: find_matches with laxity k creates a Match row only for a resume that
\* passed the candidate filter and whose Jaccard index with the source is at
\* least 1 - k/100; for j1 {A,B,D} and r3 {A,B,C} at the same location,
\* laxity 50 creates the match and laxity 0 creates none.
C4_Sound ==
    [][(Served /\ last'.op = "find_matches")
          => /\ \A m \in matches' \ matches :
                  /\ m.ad_id = last'.ad
                  /\ m.resume_id \in Resumes(last'.ad, last'.k)
                  /\ JaccardAtLeast(ads[m.resume_id].skills, ads[m.ad_id].skills, last'.k)
             /\ (/\ last'.ad = "j1" /\ last'.status = 200
                 /\ ads["r3"].location = ads["j1"].location
                 /\ ads["r3"].status = "Active" /\ ~ads["r3"].is_deleted)
                  => IF last'.k = 50
                     THEN \E m \in matches' : /\ m.ad_id = "j1" /\ m.resume_id = "r3"
                                              /\ m.company_id = last'.user
                     ELSE \A m \in matches' \ matches : m.resume_id # "r3"]_vars

\* laxity 50 has paired j1 with r3, whose Jaccard index is exactly 1/2
C4_Witness ==
    /\ last.op = "find_matches" /\ last.ad = "j1" /\ last.k = 50
    /\ \E m \in matches : m.ad_id = "j1" /\ m.resume_id = "r3" /\ m.company_id = last.user

C6_MainAdCleared ==
    (last.op = "delete_ad" /\ last.status = 204 /\ ads[last.ad].is_resume)
        => \A i \in Infos : main_ad[i] # last.ad

\* C7: approve_match on an existing non-deleted match succeeds, sets the
\* company_approved flag of one row with that (resume_id, company_id) and
\* changes nothing else of that row or of any other row.
C7_CompanyApprove ==
    [][(Served /\ last'.op = "approve_match")
          => /\ (\E m \in matches : /\ ~m.is_deleted /\ m.resume_id = last'.ad
                                    /\ m.company_id = last'.user)
                    => last'.status = 200
             /\ last'.status = 200
                    => \E m \in matches :
                          /\ ~m.is_deleted
                          /\ m.resume_id = last'.ad /\ m.company_id = last'.user
                          /\ matches' = (matches \ {m})
                                          \cup {[m EXCEPT !.company_approved = TRUE]}]_vars

\* a company has approved one of its matches and the professional has not
C7_Witness ==
    /\ last.op = "approve_match" /\ last.status = 200
    /\ \E m \in matches : /\ m.resume_id = last.ad /\ m.company_id = last.user
                          /\ m.company_approved /\ ~m.professional_approved
                          /\ ~m.is_deleted

\* C8: after approve_match_by_ad_id succeeds, a read of the match shows
\* professional_approved = true.
C8_ProfessionalApprove ==
    (last.op = "approve_match_by_ad_id" /\ last.status = 200)
        => \E m \in matches : /\ m.ad_id = last.ad /\ ~m.is_deleted
                              /\ m.professional_approved

\* C9: an approve call whose key matches no Match row, or only soft-deleted
\* ones, fails with 404 and changes no Match row.
C9_ApproveMissing ==
    [][Served
          => /\ (/\ last'.op = "approve_match"
                 /\ \A m \in matches :
                       (m.resume_id = last'.ad /\ m.company_id = last'.user) => m.is_deleted)
                    => (last'.status = 404 /\ matches' = matches)
             /\ (/\ last'.op = "approve_match_by_ad_id"
                 /\ \A m \in matches : m.ad_id = last'.ad => m.is_deleted)
                    => (last'.status = 404 /\ matches' = matches)]_vars

\* an approval has been refused although a soft-deleted row has its key
C9_Witness ==
    /\ last.op = "approve_match" /\ last.status = 404
    /\ \E m \in matches : /\ m.resume_id = last.ad /\ m.company_id = last.user
                          /\ m.is_deleted

\* C10: find_matches fails and leaves the Match table unchanged when the
\* company has no Info, and fails with 404 and leaves it unchanged when the
\* source ad does not exist or is soft-deleted.
C10_Preconditions ==
    [][(Served /\ last'.op = "find_matches")
          => /\ CompanyInfo(last'.user) = None
                    => (last'.status >= 400 /\ matches' = matches)
             /\ (last'.ad \notin DOMAIN ads \/ ads[last'.ad].is_deleted)
                    => (last'.status = 404 /\ matches' = matches)]_vars

\* a company with its info set has proposed for a soft-deleted ad that
\* still has candidates
C10_Witness ==
    /\ last.op = "find_matches" /\ last.status = 404
    /\ CompanyInfo(last.user) # None
    /\ last.ad \in DOMAIN ads /\ ads[last.ad].is_deleted
    /\ PassingResumes(last.ad, last.k) # {}

\* C11: calculate_similarity(A, B, t) is true exactly when A \cup B is not
\* empty and |A \cap B| / |A \cup B| >= t; for two empty sets it is false (0)
\* for every threshold t > 0.
C11_Jaccard ==
    (call.fn = "calculate_similarity" /\ call.returned)
        => LET A == call.resume_skills
               B == call.ad_skills
           IN  /\ call.value
                     <=> (/\ A \cup B # {}
                          /\ 100 * Cardinality(A \cap B)
                                >= call.threshold * Cardinality(A \cup B))
               /\ (A = {} /\ B = {} /\ call.threshold > 0) => ~call.value

\* the call has returned true for two sets whose Jaccard index is exactly
\* the positive threshold
C11_Witness ==
    /\ call.fn = "calculate_similarity" /\ call.returned /\ call.value
    /\ call.threshold > 0 /\ call.threshold < 100
    /\ 100 * Cardinality(call.resume_skills \cap call.ad_skills)
          = call.threshold * Cardinality(call.resume_skills \cup call.ad_skills)

\* C13: when two concurrent find_matches requests would create the same
\* Match row, then in every interleaving of their reads, inserts and commits
\* the final state has exactly one row with that key, exactly one of the two
\* inserts wins, and neither request fails: the loser's constraint violation
\* is caught and it goes on through all its remaining candidates.
C13_ConcurrentProposals ==
    (\A t \in DOMAIN txns : txns[t].pc = "done")
        => \A t \in DOMAIN txns, u \in DOMAIN txns :
              (t # u /\ txns[t].tried \cap txns[u].tried # {})
                  => /\ \A key \in txns[t].tried \cap txns[u].tried :
                          /\ Cardinality({m \in matches : PrimaryKey(m) = key}) = 1
                          /\ (key \in txns[t].won) # (key \in txns[u].won)
                     /\ txns[t].status = 200 /\ txns[u].status = 200
                     /\ txns[t].i = Len(txns[t].resumes) + 1
                     /\ \A r \in Resumes(txns[t].ad_id, txns[t].k) :
                          calculate_similarity(ads[r].skills, ads[txns[t].ad_id].skills,
                                               SimilarityThreshold(txns[t].k))
                            => <<txns[t].ad_id, InfoProfessional(ads[r].info_id),
                                 txns[t].company>> \in txns[t].tried

\* both requests have returned; each has won one row and lost another to
\* the other request
C13_Witness ==
    /\ DOMAIN txns = Sessions
    /\ \A t \in Sessions :
          /\ txns[t].pc = "done"
          /\ txns[t].won # {}
          /\ txns[t].tried \ txns[t].won # {}
    /\ txns["t1"].won \cap txns["t2"].tried # {}
    /\ txns["t2"].won \cap txns["t1"].tried # {}

\* the resumes owned by the Info of a professional
OwnResumes(professional) ==
    {a \in DOMAIN ads : ads[a].info_id = ProfessionalInfo(professional)}

\* C14: after delete_professional_by_id succeeds, every resume owned by the
\* profile's Info is soft-deleted, every Match row involving any of those
\* resumes is soft-deleted, and the professional, its user and its Info are
\* soft-deleted.
C14_ProfileCascade ==
    (last.op = "delete_professional" /\ last.status = 204)
        => /\ \A a \in OwnResumes(last.ad) : ads[a].is_deleted
           /\ \A m \in matches :
                 (m.resume_id \in OwnResumes(last.ad) \/ m.ad_id \in OwnResumes(last.ad))
                    => m.is_deleted
           /\ <<"professionals", last.ad>> \in deleted
           /\ <<"users", last.ad>> \in deleted
           /\ <<"info", ProfessionalInfo(last.ad)>> \in deleted

\* C15: Match rows are never hard-deleted: a row that exists exists in every
\* later state, whatever proposals, approvals, ad deletions and profile
\* deletions follow; deletion only sets is_deleted.
C15_NoHardDelete ==
    [][\A m \in matches :
          \E n \in matches' : /\ PrimaryKey(n) = PrimaryKey(m)
                               /\ n.resume_id = m.resume_id]_vars

\* the operations of the matching flow
MatchingOps == {"find_matches", "search_for_match", "approve_match", "approve_match_by_ad_id"}

\* C16: no operation of the matching flow (propose, approve as company,
\* approve as professional) changes the status or any other attribute of an
\* ad; no status becomes "Matched", also when a match has been approved.
C16_AdsUntouched ==
    [][(Served /\ last'.op \in MatchingOps)
          => /\ ads' = ads
             /\ \A a \in DOMAIN ads' : ads'[a].status # "Matched"]_vars

\* a match approved by its company has been approved by the professional,
\* and both its ads are still Active
C16_Witness ==
    /\ last.op = "approve_match_by_ad_id" /\ last.status = 200
    /\ \E m \in matches : /\ m.ad_id = last.ad /\ m.company_approved /\ ~m.is_deleted
                          /\ ads[m.ad_id].status = "Active"
                          /\ ads[m.resume_id].status = "Active"

\* C17: find_matches leaves every row that existed before the call as it
\* was (company_approved, professional_approved, is_deleted and all other
\* columns), also when the call runs into a duplicate for that row.
C17_ExistingUntouched ==
    [][(Served /\ last'.op = "find_matches")
          => \A m \in matches : m \in matches']_vars

\* a proposal has run into the duplicate of a row that had been approved or
\* soft-deleted, and that row is as it was
C17_Witness ==
    /\ last.op = "find_matches" /\ last.status = 200
    /\ \E m \in matches : /\ m.ad_id = last.ad /\ m.company_id = last.user
                          /\ m.resume_id \in PassingResumes(last.ad, last.k)
                          /\ (m.company_approved \/ m.is_deleted)

\* the Active job ads at the location of the resume whose salary band and
\* skills are compatible with it at laxity k
CompatibleAds(resume, k) ==
    {a \in Ads(resume, k) :
        calculate_similarity(ads[resume].skills, ads[a].skills, SimilarityThreshold(k))}

\* C18: the professional's find_matches, called with a laxity and the id of
\* one of their resumes, creates exactly one Match row for a compatible
\* Active job ad at the same location and reports "You have new matches!";
\* called with an id that is not an existing resume it fails with 404 and
\* creates no row.
C18_ProfessionalSearch ==
    [][(Served /\ last'.op = "search_for_match")
          => IF /\ last'.ad \in DOMAIN ads
                /\ ads[last'.ad].is_resume /\ ~ads[last'.ad].is_deleted
                /\ ads[last'.ad].info_id = ProfessionalInfo(last'.user)
             THEN Cardinality(CompatibleAds(last'.ad, last'.k)) = 1
                    => /\ last'.status = 200
                       /\ last'.msg = "You have new matches!"
                       /\ Cardinality(matches' \ matches) = 1
                       /\ \A m \in matches' \ matches :
                             m.ad_id \in CompatibleAds(last'.ad, last'.k)
             ELSE last'.status = 404 /\ matches' = matches]_vars

\* C19: every candidate find_matches pairs with its source is not
\* soft-deleted, Active, at the source's location and of the opposite kind:
\* a job ad is paired only with resumes and a resume only with job ads,
\* never with an ad of its own kind or with itself.
C19_OppositeKind ==
    [][(Served /\ last'.op = "find_matches")
          => \A m \in matches' \ matches :
                /\ m.ad_id = last'.ad
                /\ ~ads[m.resume_id].is_deleted
                /\ ads[m.resume_id].status = "Active"
                /\ ads[m.resume_id].location = ads[m.ad_id].location
                /\ ads[m.resume_id].is_resume # ads[m.ad_id].is_resume
                /\ m.resume_id # m.ad_id]_vars

\* C12 as stated: for all skill sets A and B, calculate_similarity(A, B, 0)
\* is true.
C12_ZeroThreshold ==
    (call.fn = "calculate_similarity" /\ call.returned /\ call.threshold = 0)
        => call.value

\* C12, amended: calculate_similarity(A, B, 0) is true for all skill sets A
\* and B that are not both empty, and false (0) when both are empty.
C12_ZeroThresholdNonEmpty ==
    (call.fn = "calculate_similarity" /\ call.returned /\ call.threshold = 0)
        => (call.value <=> (call.resume_skills \cup call.ad_skills # {}))

\* the call with threshold 0 has returned for two disjoint non-empty sets
C12_Witness ==
    /\ call.fn = "calculate_similarity" /\ call.returned /\ call.threshold = 0
    /\ call.value
    /\ call.resume_skills # {} /\ call.ad_skills # {}
    /\ call.resume_skills \cap call.ad_skills = {}

\* n / d rounded down and rounded up
Floor(n, d) == n \div d
Ceil(n, d) == 0 - ((0 - n) \div d)

\* C20 as stated: for integer salaries and p = k/100 the band is
\* adj_min = floor(min - min*p), adj_max = ceil(max + max*p), and a candidate
\* whose min_salary equals ceil(max + max*p) is inside the band.
C20_Band ==
    (call.fn = "salary_range" /\ call.returned)
        => LET lo == call.ad.min_salary * (100 - call.k)
               hi == call.ad.max_salary * (100 + call.k)
           IN  /\ call.salary_range_adjusted_min = Floor(lo, 100)
               /\ call.salary_range_adjusted_max = Ceil(hi, 100)
               /\ call.ad.min_salary <= call.ad.max_salary
                     => /\ Ceil(hi, 100) >= call.salary_range_adjusted_min
                        /\ Ceil(hi, 100) <= call.salary_range_adjusted_max

\* C20, amended: for integer salaries and p = k/100 both bounds are
\* truncated toward zero: adj_min is floor(min - min*p) for min >= 0 and
\* ceil(min - min*p) for min < 0, adj_max is floor(max + max*p) for
\* max >= 0 and ceil(max + max*p) for max < 0; a candidate whose min_salary
\* equals ceil(max + max*p) is inside the band of an ad with
\* 0 <= min <= max exactly when max*p is an integer.
C20_BandTruncated ==
    (call.fn = "salary_range" /\ call.returned)
        => LET lo == call.ad.min_salary * (100 - call.k)
               hi == call.ad.max_salary * (100 + call.k)
           IN  /\ call.salary_range_adjusted_min
                     = IF call.ad.min_salary >= 0 THEN Floor(lo, 100) ELSE Ceil(lo, 100)
               /\ call.salary_range_adjusted_max
                     = IF call.ad.max_salary >= 0 THEN Floor(hi, 100) ELSE Ceil(hi, 100)
               /\ (0 <= call.ad.min_salary /\ call.ad.min_salary <= call.ad.max_salary)
                     => ((/\ Ceil(hi, 100) >= call.salary_range_adjusted_min
                          /\ Ceil(hi, 100) <= call.salary_range_adjusted_max)
                            <=> (call.ad.max_salary * call.k) % 100 = 0)

\* the band of an ad with max_salary 3 at laxity 50 has been computed: its
\* upper bound is 4 and a candidate at ceil(4.5) = 5 is outside
C20_Witness ==
    /\ call.fn = "salary_range" /\ call.returned
    /\ call.ad.min_salary = 1 /\ call.ad.max_salary = 3 /\ call.k = 50
    /\ call.salary_range_adjusted_max = 4

\* the candidate's min_salary lies in the adjusted band of the source
MinSalaryInBand(candidate, source, k) ==
    /\ candidate.min_salary >= SalaryRangeAdjustedMin(source, k)
    /\ candidate.min_salary <= SalaryRangeAdjustedMax(source, k)

\* C21: for job-ad sources and for resume sources alike, a candidate passes
\* the salary filter exactly when its min_salary lies in [adj_min, adj_max]
\* of the source; its max_salary plays no part.
C21_MinSalaryOnly ==
    (call.fn = "salary_filter" /\ call.returned)
        => /\ call.resumes <=> MinSalaryInBand(call.candidate, call.source, call.k)
           /\ call.ads <=> MinSalaryInBand(call.candidate, call.source, call.k)

\* C22: a job ad and a resume, with any integer salaries, that
\* find_matches matches at laxity k are also matched at every laxity
\* k2 >= k.
C22_LaxityMonotone ==
    (call.fn = "matched" /\ call.returned /\ call.at_k) => call.at_k2

C25_ReferentialIntegrity ==
    \A m \in matches :
        ~m.is_deleted
            => /\ m.ad_id \in DOMAIN ads
               /\ ~ads[m.ad_id].is_deleted /\ ~ads[m.ad_id].is_resume
               /\ m.resume_id \in DOMAIN ads
               /\ ~ads[m.resume_id].is_deleted /\ ads[m.resume_id].is_resume

\* C26: in every reachable state the company_id of a Match row on a job ad
\* is the company that owns the job ad and its professional_id is the
\* professional that owns the resume.
C26_Ownership ==
    \A m \in matches :
        (m.ad_id \in DOMAIN ads /\ ~ads[m.ad_id].is_resume)
            => /\ ads[m.ad_id].info_id = CompanyInfo(m.company_id)
               /\ m.resume_id \in DOMAIN ads
                     => ads[m.resume_id].info_id = ProfessionalInfo(m.professional_id)

\* C27: in every reachable state there is at most one non-deleted Match row
\* on job ads for a given (resume_id, company_id).
C27_ApprovalKeyUnique ==
    \A m1, m2 \in matches :
        (/\ ~m1.is_deleted /\ ~m2.is_deleted
         /\ ~ads[m1.ad_id].is_resume /\ ~ads[m2.ad_id].is_resume
         /\ m1.resume_id = m2.resume_id /\ m1.company_id = m2.company_id)
            => m1 = m2

C29_MainResumeValid ==
    /\ \A i \in Infos :
          (<<"info", i>> \notin deleted /\ main_ad[i] # None)
              => /\ main_ad[i] \in DOMAIN ads
                 /\ ~ads[main_ad[i]].is_deleted
                 /\ ads[main_ad[i]].is_resume
                 /\ ads[main_ad[i]].info_id = i
    /\ \A i, j \in Infos :
          (main_ad[i] # None /\ main_ad[i] = main_ad[j]) => i = j

====
